---- MODULE Spec2Model ----
(***************************************************************************)
(* Task lifecycle and concurrency core of backend/main.py: the Task        *)
(* record, the Manager registry, the start/status/pause/cancel/resume      *)
(* handlers, the media worker (run_ytdlp), the image worker (run_image),   *)
(* bulk eviction and the cleanup sweeper.  Every action is one atomic step *)
(* of one thread: a block run under task.lock, or the code between two     *)
(* such blocks.                                                            *)
(*                                                                         *)
(* Representation.  progress is kept in hundredths (1.0 is Percent).  A    *)
(* task id (uuid4) is a fresh natural number.  Optional strings are        *)
(* NoneVal when None.  A file name is <<>> when None and <<tid>> for the   *)
(* artifact of task tid; files is the set of artifacts on disk.            *)
(* title, speed, eta, fmt, quality and filepath are not modelled.          *)
(*                                                                         *)
(* Specifications.  Spec is the server within one second of its clock: the *)
(* handlers, the workers and eviction, all interleaved; the sweeper        *)
(* removes nothing that young and is left out.  SpecCap is start_download  *)
(* at its cap.  SpecSnap takes the final locked blocks of the workers      *)
(* statement by statement against to_status.  SpecSweep is the sweeper     *)
(* over a registry of settled tasks while the clock advances.              *)
(***************************************************************************)
EXTENDS Integers, Sequences, FiniteSets, Bags, TLC

VARIABLES
    tasks,      \* every Task object created so far: id -> fields
    registry,   \* manager.tasks: the ids the Manager still maps
    checked,    \* start_download calls past the cap test, before the insert
    workers,    \* bag of running worker threads (local variables and position)
    pending,    \* handlers past their locked update, before `return task.to_status()`;
                \* `was` keeps the status a pause call found, for stating C2
    files,      \* artifacts present in DOWNLOAD_DIR
    mtime,      \* os.path.getmtime of each artifact, in seconds
    clock,      \* time.time(), in seconds
    sweeper,    \* cleanup_worker: the `now` of its pass and the tasks still to visit
    evicting    \* a clear_completed / clear_canceled call between its two loops

vars == <<tasks, registry, checked, workers, pending, files, mtime, clock, sweeper, evicting>>

\* what only the sweeper and the eviction calls change
rest == <<clock, sweeper, evicting>>

\* ---- bounds of the model ----
MaxTasks == 1       \* start requests accepted in one behaviour
MaxWorkers == 2     \* worker threads alive at once
MaxLines == 2       \* output lines one child process prints
MaxChunks == 2      \* body chunks one HTTP response yields
MaxInflight == 1    \* handlers between their locked update and their return
MaxTicks == 2       \* seconds the clock advances while the sweeper is watched
MaxSwept == 2       \* tasks in the registry the sweeper walks

\* ---- program constants ----
MAX_TASKS == 20
Percent == 100
SweepAge == 600

NoneVal == "None"
UnsupportedMsg == "Unsupported category"
NotFoundMsg == "Download finished but file not found"
ExcMsg == "str(e)"

\* ---- inputs ----
\* req.category: the three the runner knows and one it does not
Categories == {"video", "audio", "image", "document"}
\* the percentage a "[download] ...%" line carries: below 0, in range, above 100
Pcts == {-10, 40, 150}
\* content-length in chunks: absent (0), or fewer than the chunks that arrive
Totals == {0, 1}

\* one output line: a progress line, a "Destination:" or "Merging formats into"
\* line (both assign filename and download_url alike), or any other line
Lines == {[k |-> "progress", pct |-> p] : p \in Pcts}
             \cup {[k |-> "dest", pct |-> 0], [k |-> "other", pct |-> 0]}

\* ---- Task ----
NewTask(cat) ==
    [category |-> cat, status |-> "pending", progress |-> 0,
     filename |-> <<>>, download_url |-> <<>>, message |-> NoneVal,
     control |-> "", downloaded_at |-> NoneVal]

DownloadUrl(fname) == <<"/downloads/">> \o fname

Min(a, b) == IF a < b THEN a ELSE b
Max(a, b) == IF a > b THEN a ELSE b

Clamp01NoUpper(x) == Max(0, x)
Clamp01(x) == Max(0, Min(Percent, x))

ActiveCount ==
    Cardinality({t \in registry : tasks[t].status \in {"pending", "downloading"}})

NextId == Cardinality(DOMAIN tasks) + 1

\* ---- worker threads ----
RunnerKind(cat) ==
    IF cat \in {"video", "audio"} THEN "media"
    ELSE IF cat = "image" THEN "image" ELSE "unsupported"

\* `late` is not a variable of the code: it counts the lines or chunks the thread
\* has handled with the control flag set since its last check found it clear
NewWorker(tid, kind) ==
    [tid |-> tid, kind |-> kind, pc |-> "begin", n |-> 0, total |-> 0, pct |-> 0,
     late |-> 0]

Late(tid, late) == IF tasks[tid].control # "" THEN late + 1 ELSE 0

One(w) == SetToBag({w})
Live == BagCardinality(workers)
WorkersOf(tid) ==
    LET ws == {w \in BagToSet(workers) : w.tid = tid /\ w.kind \in {"media", "image"}}
        RECURSIVE Sum(_)
        Sum(S) == IF S = {} THEN 0
                  ELSE LET w == CHOOSE x \in S : TRUE
                       IN CopiesIn(w, workers) + Sum(S \ {w})
    IN Sum(ws)

Step(w, w2) == workers' = (workers (-) One(w)) (+) One(w2)
Exit(w) == workers' = workers (-) One(w)

\* a write to the artifact of task tid: it exists and its mtime is the time now
Written(tid) ==
    /\ files' = files \cup {tid}
    /\ mtime' = (tid :> clock) @@ mtime

NoSweep == [now |-> 0, todo |-> {}]
NoEvict == [st |-> "", ids |-> {}]

Init ==
    /\ tasks = <<>>
    /\ registry = {}
    /\ checked = 0
    /\ workers = EmptyBag
    /\ pending = {}
    /\ files = {}
    /\ mtime = <<>>
    /\ clock = 0
    /\ sweeper = NoSweep
    /\ evicting = NoEvict

\* ---- start_download ----
\* the cap test of line 427; `limit` bounds the ids one behaviour creates
StartCheck(limit) ==
    /\ Cardinality(DOMAIN tasks) + checked < limit
    /\ ActiveCount < MAX_TASKS
    /\ checked' = checked + 1
    /\ UNCHANGED <<tasks, registry, workers, pending, files, mtime, rest>>

\* HTTPException(429): nothing is created
StartReject ==
    /\ ActiveCount >= MAX_TASKS
    /\ UNCHANGED vars

\* Task(tid, req), manager.tasks[tid] = task, and the runner thread's start
StartCreate ==
    /\ checked > 0
    /\ Cardinality(pending) < MaxInflight
    /\ Live < MaxWorkers
    /\ \E cat \in Categories :
          LET tid == NextId IN
          /\ tasks' = tasks @@ (tid :> NewTask(cat))
          /\ registry' = registry \cup {tid}
          /\ workers' = workers (+) One(NewWorker(tid, RunnerKind(cat)))
          /\ pending' = pending \cup {[op |-> "start", tid |-> tid, was |-> "-"]}
    /\ checked' = checked - 1
    /\ UNCHANGED <<files, mtime, rest>>

\* ---- Manager.get ----
\* the ids a request can name: every id issued so far and one never issued
RequestIds == 1..NextId

\* KeyError, answered with HTTPException(404): nothing is read or written
TaskNotFound(tid) ==
    /\ tid \notin registry
    /\ UNCHANGED vars

\* ---- pause_task / cancel_task / resume_task: the locked update ----
\* pause_task without the lookup in the registry
PauseTaskUnchecked(tid) ==
    /\ tid \in DOMAIN tasks
    /\ Cardinality(pending) < MaxInflight
    /\ tasks' = [tasks EXCEPT ![tid].control = "pause", ![tid].status = "paused"]
    /\ pending' = pending \cup {[op |-> "pause", tid |-> tid, was |-> tasks[tid].status]}
    /\ UNCHANGED <<registry, checked, workers, files, mtime, rest>>

PauseTask(tid) ==
    /\ tid \in registry
    /\ Cardinality(pending) < MaxInflight
    /\ tasks' = [tasks EXCEPT ![tid].control = "pause", ![tid].status = "paused"]
    /\ pending' = pending \cup {[op |-> "pause", tid |-> tid, was |-> tasks[tid].status]}
    /\ UNCHANGED <<registry, checked, workers, files, mtime, rest>>

CancelTask(tid) ==
    /\ tid \in registry
    /\ Cardinality(pending) < MaxInflight
    /\ tasks' = [tasks EXCEPT ![tid].control = "cancel", ![tid].status = "canceled"]
    /\ pending' = pending \cup {[op |-> "cancel", tid |-> tid, was |-> "-"]}
    /\ UNCHANGED <<registry, checked, workers, files, mtime, rest>>

\* resume's runner has no else branch: for another category the thread ends at once
ResumeWorkers(tid) ==
    IF RunnerKind(tasks[tid].category) = "unsupported"
    THEN workers
    ELSE workers (+) One(NewWorker(tid, RunnerKind(tasks[tid].category)))

ResumeTask(tid) ==
    /\ tid \in registry
    /\ Cardinality(pending) < MaxInflight
    /\ RunnerKind(tasks[tid].category) # "unsupported" => Live < MaxWorkers
    /\ tasks' = [tasks EXCEPT ![tid].control = "", ![tid].status = "downloading"]
    /\ workers' = ResumeWorkers(tid)
    /\ pending' = pending \cup {[op |-> "resume", tid |-> tid, was |-> "-"]}
    /\ UNCHANGED <<registry, checked, files, mtime, rest>>

\* get_status: manager.get(tid), before `.to_status()`
GetStatus(tid) ==
    /\ tid \in registry
    /\ Cardinality(pending) < MaxInflight
    /\ pending' = pending \cup {[op |-> "get", tid |-> tid, was |-> "-"]}
    /\ UNCHANGED <<tasks, registry, checked, workers, files, mtime, rest>>

\* `return task.to_status()`: the record returned is the task as it stands now;
\* to_status takes no lock
ToStatus(tid) == [id |-> tid] @@ tasks[tid]

Return(h) ==
    /\ h \in pending
    /\ pending' = pending \ {h}
    /\ UNCHANGED <<tasks, registry, checked, workers, files, mtime, rest>>

\* ---- Manager.clear_completed / clear_canceled ----
\* Neither takes a lock.  The first statement builds to_delete from the statuses
\* it reads; the loop that deletes runs after it, and other threads run in
\* between.  With nothing to delete the call ends at once.  One call at a time.
ClearCollect(st) ==
    /\ evicting = NoEvict
    /\ LET ids == {t \in registry : tasks[t].status = st}
       IN evicting' = IF ids = {} THEN NoEvict ELSE [st |-> st, ids |-> ids]
    /\ UNCHANGED <<tasks, registry, checked, workers, pending, files, mtime, clock, sweeper>>

ClearCompleted == ClearCollect("completed")

ClearCanceled == ClearCollect("canceled")

\* `for tid in to_delete: del self.tasks[tid]`
ClearDelete ==
    /\ evicting # NoEvict
    /\ registry' = registry \ evicting.ids
    /\ evicting' = NoEvict
    /\ UNCHANGED <<tasks, checked, workers, pending, files, mtime, clock, sweeper>>

\* ---- cleanup_worker ----
\* `now = time.time()` and `list(manager.tasks.items())` at the head of a pass
SweepBegin ==
    /\ sweeper.todo = {}
    /\ sweeper' = [now |-> clock, todo |-> registry]
    /\ UNCHANGED <<tasks, registry, checked, workers, pending, files, mtime, clock, evicting>>

ExpiredAtThreshold(now, m) == now - m >= SweepAge
\* `now - mtime > 600`
Expired(now, m) == now - m > SweepAge

\* the task the pass visits next: the dict keeps insertion order
SweepNext == CHOOSE t \in sweeper.todo : \A u \in sweeper.todo : t <= u

\* whether the pass removes the artifact of task tid (the body under task.lock)
Swept(tid) ==
    /\ tasks[tid].status \in {"completed", "canceled"}
    /\ tasks[tid].filename # <<>>
    /\ Head(tasks[tid].filename) \in files
    /\ Expired(sweeper.now, mtime[Head(tasks[tid].filename)])

\* one iteration of the for loop; a failure of os.remove is printed and is not modelled
SweepTask ==
    /\ sweeper.todo # {}
    /\ LET tid == SweepNext
           gone == IF Swept(tid) THEN {Head(tasks[tid].filename)} ELSE {}
       IN /\ files' = files \ gone
          /\ mtime' = [f \in DOMAIN mtime \ gone |-> mtime[f]]
          /\ sweeper' = [sweeper EXCEPT !.todo = @ \ {tid}]
    /\ UNCHANGED <<tasks, registry, checked, workers, pending, clock, evicting>>

\* a second passes
Tick ==
    /\ clock < SweepAge + MaxTicks
    /\ clock' = clock + 1
    /\ UNCHANGED <<tasks, registry, checked, workers, pending, files, mtime, sweeper, evicting>>

\* ---- start's runner, another category ----
RunnerUnsupported(w) ==
    /\ w.kind = "unsupported"
    /\ tasks' = [tasks EXCEPT ![w.tid].status = "error", ![w.tid].message = UnsupportedMsg]
    /\ Exit(w)
    /\ UNCHANGED <<registry, checked, pending, files, mtime, rest>>

\* ---- the catch-all of both workers (lines 336-339, 390-393) ----
FailedKeepsStatus(t) == [t EXCEPT !.message = ExcMsg]
Failed(t) == [t EXCEPT !.status = "error", !.message = ExcMsg]

\* ---- run_ytdlp ----
\* lines 234-236
YtBegin(w) ==
    /\ w.kind = "media" /\ w.pc = "begin"
    /\ tasks' = [tasks EXCEPT ![w.tid].status = "downloading", ![w.tid].progress = 0]
    /\ Step(w, [w EXCEPT !.pc = "read"])
    /\ UNCHANGED <<registry, checked, pending, files, mtime, rest>>

\* what one output line does to the task (lines 255-288)
ApplyLine(t, tid, ln) ==
    IF ln.k = "progress" THEN [t EXCEPT !.progress = Clamp01(ln.pct)]
    ELSE IF ln.k = "dest"
         THEN [t EXCEPT !.filename = <<tid>>, !.download_url = DownloadUrl(<<tid>>)]
         ELSE t

\* one line read and parsed; the child may have written its output file by now
YtLine(w) ==
    /\ w.kind = "media" /\ w.pc = "read" /\ w.n < MaxLines
    /\ \E ln \in Lines, wrote \in BOOLEAN :
          /\ tasks' = [tasks EXCEPT ![w.tid] = ApplyLine(@, w.tid, ln)]
          /\ IF ln.k = "dest" \/ wrote THEN Written(w.tid)
                                        ELSE UNCHANGED <<files, mtime>>
          /\ Step(w, [w EXCEPT !.pc = "check", !.n = @ + 1, !.pct = ln.pct,
                               !.late = Late(w.tid, @)])
    /\ UNCHANGED <<registry, checked, pending, rest>>

\* the control checks without their `return`: the worker reads on
YtCheckNoReturn(w) ==
    /\ w.kind = "media" /\ w.pc = "check"
    /\ tasks' = IF tasks[w.tid].control = "pause"
                THEN [tasks EXCEPT ![w.tid].status = "paused"]
                ELSE IF tasks[w.tid].control = "cancel"
                     THEN [tasks EXCEPT ![w.tid].status = "canceled"]
                     ELSE tasks
    /\ Step(w, [w EXCEPT !.pc = "read", !.pct = 0])
    /\ UNCHANGED <<registry, checked, pending, files, mtime, rest>>

\* the control checks of lines 291-305
YtCheck(w) ==
    /\ w.kind = "media" /\ w.pc = "check"
    /\ IF tasks[w.tid].control = "pause"
       THEN tasks' = [tasks EXCEPT ![w.tid].status = "paused"] /\ Exit(w)
       ELSE IF tasks[w.tid].control = "cancel"
            THEN tasks' = [tasks EXCEPT ![w.tid].status = "canceled"] /\ Exit(w)
            ELSE UNCHANGED tasks /\ Step(w, [w EXCEPT !.pc = "read", !.pct = 0, !.late = 0])
    /\ UNCHANGED <<registry, checked, pending, files, mtime, rest>>

\* the stream ends, process.wait(), and the glob fallback of lines 310-316
YtEof(w) ==
    /\ w.kind = "media" /\ w.pc = "read"
    /\ \E found \in (IF w.tid \in files THEN BOOLEAN ELSE {FALSE}) :
          tasks' = IF tasks[w.tid].filename = <<>> /\ found
                   THEN [tasks EXCEPT ![w.tid].filename = <<w.tid>>,
                                      ![w.tid].download_url = DownloadUrl(<<w.tid>>)]
                   ELSE tasks
    /\ Step(w, [w EXCEPT !.pc = "final", !.n = 0])
    /\ UNCHANGED <<registry, checked, pending, files, mtime, rest>>

\* the first block of lines 319-324 alone
FinalBlockFirstOnly(t) ==
    IF t.status \notin {"paused", "canceled"}
    THEN [t EXCEPT !.progress = Percent, !.status = "completed", !.downloaded_at = "ts",
                   !.download_url = IF t.filename # <<>> THEN DownloadUrl(t.filename) ELSE @]
    ELSE t

\* the locked block of lines 318-334, both nested tests
FinalBlock(t) ==
    IF t.status \notin {"paused", "canceled"}
    THEN LET t1 == [t EXCEPT !.progress = Percent, !.status = "completed",
                             !.downloaded_at = "ts",
                             !.download_url = IF t.filename # <<>>
                                              THEN DownloadUrl(t.filename) ELSE @]
         IN IF t1.status \notin {"paused", "canceled"}
            THEN IF t1.filename # <<>>
                 THEN [t1 EXCEPT !.progress = Percent, !.status = "completed",
                                 !.downloaded_at = "ts",
                                 !.download_url = DownloadUrl(t1.filename)]
                 ELSE [t1 EXCEPT !.status = "error", !.message = NotFoundMsg]
            ELSE t1
    ELSE t

YtFinal(w) ==
    /\ w.kind = "media" /\ w.pc = "final"
    /\ tasks' = [tasks EXCEPT ![w.tid] = FinalBlock(@)]
    /\ Exit(w)
    /\ UNCHANGED <<registry, checked, pending, files, mtime, rest>>

\* Popen or the read of the stream raises
YtFail(w) ==
    /\ w.kind = "media" /\ w.pc = "read"
    /\ tasks' = [tasks EXCEPT ![w.tid] = Failed(@)]
    /\ Exit(w)
    /\ UNCHANGED <<registry, checked, pending, files, mtime, rest>>

\* ---- run_image ----
\* lines 344-346
ImgBegin(w) ==
    /\ w.kind = "image" /\ w.pc = "begin"
    /\ tasks' = [tasks EXCEPT ![w.tid].status = "downloading", ![w.tid].progress = 0]
    /\ Step(w, [w EXCEPT !.pc = "get"])
    /\ UNCHANGED <<registry, checked, pending, files, mtime, rest>>

\* requests.get, raise_for_status, content-length, open(fpath, "wb")
ImgGet(w) ==
    /\ w.kind = "image" /\ w.pc = "get"
    /\ \E total \in Totals : Step(w, [w EXCEPT !.pc = "iter", !.total = total])
    /\ Written(w.tid)
    /\ UNCHANGED <<tasks, registry, checked, pending, rest>>

\* the control test without its `return`: the chunk is written all the same
ImgCheckNoReturn(w) ==
    /\ w.kind = "image" /\ w.pc = "iter" /\ w.n < MaxChunks
    /\ tasks' = IF tasks[w.tid].control = "pause"
                THEN [tasks EXCEPT ![w.tid].status = "paused"]
                ELSE IF tasks[w.tid].control = "cancel"
                     THEN [tasks EXCEPT ![w.tid].status = "canceled"]
                     ELSE tasks
    /\ Step(w, [w EXCEPT !.pc = "write"])
    /\ UNCHANGED <<registry, checked, pending, files, mtime, rest>>

\* a chunk arrives and the control flag is tested (lines 359-369)
ImgCheck(w) ==
    /\ w.kind = "image" /\ w.pc = "iter" /\ w.n < MaxChunks
    /\ IF tasks[w.tid].control = "pause"
       THEN tasks' = [tasks EXCEPT ![w.tid].status = "paused"] /\ Exit(w)
       ELSE IF tasks[w.tid].control = "cancel"
            THEN tasks' = [tasks EXCEPT ![w.tid].status = "canceled"] /\ Exit(w)
            ELSE UNCHANGED tasks /\ Step(w, [w EXCEPT !.pc = "write", !.late = 0])
    /\ UNCHANGED <<registry, checked, pending, files, mtime, rest>>

\* progress after `downloaded` units of `total` (line 376)
ImgProgress(downloaded, total) == Clamp01((downloaded * Percent) \div total)

\* f.write(chunk), downloaded += len(chunk), the progress update (lines 371-380)
ImgWrite(w) ==
    /\ w.kind = "image" /\ w.pc = "write"
    /\ tasks' = IF w.total # 0
                THEN [tasks EXCEPT ![w.tid].progress = ImgProgress(w.n + 1, w.total)]
                ELSE tasks
    /\ Step(w, [w EXCEPT !.pc = "iter", !.n = @ + 1, !.late = Late(w.tid, @)])
    /\ UNCHANGED <<registry, checked, pending, files, mtime, rest>>

\* the body ends: the locked block of lines 382-388
ImgFinal(w) ==
    /\ w.kind = "image" /\ w.pc = "iter"
    /\ tasks' = [tasks EXCEPT ![w.tid].status = "completed", ![w.tid].progress = Percent,
                              ![w.tid].filename = <<w.tid>>,
                              ![w.tid].download_url = DownloadUrl(<<w.tid>>),
                              ![w.tid].downloaded_at = "ts"]
    /\ Exit(w)
    /\ UNCHANGED <<registry, checked, pending, files, mtime, rest>>

\* the request, the status check, the open, the body read or the write raises
ImgFail(w) ==
    /\ w.kind = "image" /\ w.pc \in {"get", "iter", "write"}
    /\ tasks' = [tasks EXCEPT ![w.tid] = Failed(@)]
    /\ Exit(w)
    /\ UNCHANGED <<registry, checked, pending, files, mtime, rest>>

Running == BagToSet(workers)

WorkerStep ==
    \/ \E w \in Running : RunnerUnsupported(w)
    \/ \E w \in Running : YtBegin(w)
    \/ \E w \in Running : YtLine(w)
    \/ \E w \in Running : YtCheck(w)
    \/ \E w \in Running : YtEof(w)
    \/ \E w \in Running : YtFinal(w)
    \/ \E w \in Running : YtFail(w)
    \/ \E w \in Running : ImgBegin(w)
    \/ \E w \in Running : ImgGet(w)
    \/ \E w \in Running : ImgCheck(w)
    \/ \E w \in Running : ImgWrite(w)
    \/ \E w \in Running : ImgFinal(w)
    \/ \E w \in Running : ImgFail(w)

Next ==
    \/ StartCheck(MaxTasks)
    \/ StartCreate
    \/ \E tid \in RequestIds : PauseTask(tid)
    \/ \E tid \in RequestIds : CancelTask(tid)
    \/ \E tid \in RequestIds : ResumeTask(tid)
    \/ \E tid \in RequestIds : GetStatus(tid)
    \/ \E tid \in RequestIds : TaskNotFound(tid)
    \/ \E h \in pending : Return(h)
    \/ ClearCompleted
    \/ ClearCanceled
    \/ ClearDelete
    \/ WorkerStep

Spec == Init /\ [][Next]_vars

\* ---- the cap of start_download, from a registry one short of it ----
\* A filler is a task of another category after start and one resume: its status
\* is downloading and no thread runs for it.
FillerIds == 1..(MAX_TASKS - 1)

Filler ==
    [NewTask("document") EXCEPT !.status = "downloading", !.message = UnsupportedMsg]

InitCap ==
    /\ tasks = [i \in FillerIds |-> Filler]
    /\ registry = FillerIds
    /\ checked = 0
    /\ workers = EmptyBag
    /\ pending = {}
    /\ files = {}
    /\ mtime = <<>>
    /\ clock = 0
    /\ sweeper = NoSweep
    /\ evicting = NoEvict

NextCap ==
    \/ StartCheck(MAX_TASKS + MaxTasks)
    \/ StartReject
    \/ StartCreate
    \/ \E h \in pending : Return(h)
    \/ WorkerStep

SpecCap == InitCap /\ [][NextCap]_vars

\* ---- the final locked blocks, statement by statement ----
\* to_status reads the fields without task.lock, so it can run between two
\* statements of a block another thread runs under the lock.  Here each final
\* block is two steps, with the lock held in between.  No action of NextSnap
\* launches a second worker for a task, so no other worker contends for the lock.

\* lines 319-324
FinalFirst(t) ==
    IF t.status \notin {"paused", "canceled"}
    THEN [t EXCEPT !.progress = Percent, !.status = "completed", !.downloaded_at = "ts",
                   !.download_url = IF t.filename # <<>> THEN DownloadUrl(t.filename) ELSE @]
    ELSE t

\* lines 326-334, reached only inside the test of line 319
FinalSecond(t) ==
    IF t.status \notin {"paused", "canceled"}
    THEN IF t.filename # <<>>
         THEN [t EXCEPT !.progress = Percent, !.status = "completed",
                        !.downloaded_at = "ts", !.download_url = DownloadUrl(t.filename)]
         ELSE [t EXCEPT !.status = "error", !.message = NotFoundMsg]
    ELSE t

YtFinalEnter(w) ==
    /\ w.kind = "media" /\ w.pc = "final"
    /\ tasks' = [tasks EXCEPT ![w.tid] = FinalFirst(@)]
    /\ Step(w, [w EXCEPT !.pc = "final2"])
    /\ UNCHANGED <<registry, checked, pending, files, mtime, rest>>

YtFinalLeave(w) ==
    /\ w.kind = "media" /\ w.pc = "final2"
    /\ tasks' = [tasks EXCEPT ![w.tid] = FinalSecond(@)]
    /\ Exit(w)
    /\ UNCHANGED <<registry, checked, pending, files, mtime, rest>>

\* line 383
ImgFinalEnter(w) ==
    /\ w.kind = "image" /\ w.pc = "iter"
    /\ tasks' = [tasks EXCEPT ![w.tid].status = "completed"]
    /\ Step(w, [w EXCEPT !.pc = "final2"])
    /\ UNCHANGED <<registry, checked, pending, files, mtime, rest>>

\* lines 384-388
ImgFinalLeave(w) ==
    /\ w.kind = "image" /\ w.pc = "final2"
    /\ tasks' = [tasks EXCEPT ![w.tid].progress = Percent,
                              ![w.tid].filename = <<w.tid>>,
                              ![w.tid].download_url = DownloadUrl(<<w.tid>>),
                              ![w.tid].downloaded_at = "ts"]
    /\ Exit(w)
    /\ UNCHANGED <<registry, checked, pending, files, mtime, rest>>

NextSnap ==
    \/ StartCheck(MaxTasks)
    \/ StartCreate
    \/ \E tid \in RequestIds : GetStatus(tid)
    \/ \E h \in pending : Return(h)
    \/ \E w \in Running : RunnerUnsupported(w)
    \/ \E w \in Running : YtBegin(w)
    \/ \E w \in Running : YtLine(w)
    \/ \E w \in Running : YtCheck(w)
    \/ \E w \in Running : YtEof(w)
    \/ \E w \in Running : YtFinalEnter(w)
    \/ \E w \in Running : YtFinalLeave(w)
    \/ \E w \in Running : YtFail(w)
    \/ \E w \in Running : ImgBegin(w)
    \/ \E w \in Running : ImgGet(w)
    \/ \E w \in Running : ImgCheck(w)
    \/ \E w \in Running : ImgWrite(w)
    \/ \E w \in Running : ImgFinalEnter(w)
    \/ \E w \in Running : ImgFinalLeave(w)
    \/ \E w \in Running : ImgFail(w)

SpecSnap == Init /\ [][NextSnap]_vars

\* ---- the sweeper alone, over a registry of settled tasks ----
\* The registry holds MaxSwept media tasks in any status a worker or a handler
\* leaves behind, with or without a file name, with or without an artifact on disk
\* written in the first seconds of the server; the clock stands at SweepAge.
SweptIds == 1..MaxSwept
Mtimes == {0, 1}

SettledTask(st, fn) ==
    [NewTask("video") EXCEPT !.status = st, !.filename = fn,
                             !.download_url = IF fn = <<>> THEN <<>> ELSE DownloadUrl(fn)]

SettledTasks(tid) ==
    {SettledTask(st, fn) :
        st \in {"downloading", "paused", "canceled", "error"}, fn \in {<<>>, <<tid>>}}
      \cup {SettledTask("completed", <<tid>>)}

InitSweep ==
    /\ tasks \in {f \in [SweptIds -> UNION {SettledTasks(i) : i \in SweptIds}] :
                     \A i \in SweptIds : f[i] \in SettledTasks(i)}
    /\ registry = SweptIds
    /\ checked = 0
    /\ workers = EmptyBag
    /\ pending = {}
    /\ files \in SUBSET SweptIds
    /\ mtime \in [files -> Mtimes]
    /\ clock = SweepAge
    /\ sweeper = NoSweep
    /\ evicting = NoEvict

NextSweep ==
    \/ SweepBegin
    \/ SweepTask
    \/ Tick

SpecSweep == InitSweep /\ [][NextSweep]_vars

\* ======================= the claims =======================

\* C1: in every reachable state each task has at most one worker thread
\* (run_ytdlp or run_image) that was launched for it and has not returned.
C1_OneWorkerPerTask ==
    \A t \in DOMAIN tasks : WorkersOf(t) <= 1

\* C2: after a pause call that found the task downloading, and while no resume
\* or cancel follows, the status does not become completed (stated for the steps
\* up to the return of the call, whose record is the task as it then stands).
C2_PauseNeverCompletes ==
    [][\A h \in pending :
          (h.op = "pause" /\ h.was = "downloading" /\ tasks'[h.tid].control = "pause")
          => tasks'[h.tid].status # "completed"]_vars

\* C3: across any step with status downloading before and after it, the progress
\* of a task does not decrease.
C3_ProgressMonotone ==
    [][\A t \in DOMAIN tasks :
          (tasks[t].status = "downloading" /\ tasks'[t].status = "downloading")
          => tasks'[t].progress >= tasks[t].progress]_vars

\* C4: in every reachable state the progress of every task lies in [0.0, 1.0],
\* whatever percentage the child process prints and whatever byte counts arrive.
C4_ProgressInRange ==
    \A t \in DOMAIN tasks : tasks[t].progress >= 0 /\ tasks[t].progress <= Percent

\* a media worker has just parsed a percentage above 100 and the task shows 1.0
C4_Witness ==
    \E w \in Running :
        /\ w.kind = "media" /\ w.pc = "check" /\ w.pct > Percent
        /\ tasks[w.tid].progress = Percent

\* C5: in every reachable state download_url is non-null if and only if filename
\* is non-null and the status is completed.
C5_UrlIffCompleted ==
    \A t \in DOMAIN tasks :
        (tasks[t].download_url # <<>>)
            <=> (tasks[t].filename # <<>> /\ tasks[t].status = "completed")

\* C6: while MAX_TASKS tasks of the registry are pending or downloading, no step
\* creates a task, adds one to the registry or launches a worker.
C6_NoCreateAtCap ==
    [][ActiveCount >= MAX_TASKS
          => /\ DOMAIN tasks' = DOMAIN tasks
             /\ registry' \subseteq registry
             /\ BagCardinality(workers') <= BagCardinality(workers)]_vars

\* C7: a cancel call, with no pause or resume on the task since its update,
\* returns a record with status canceled, whatever the workers did meanwhile.
C7_CancelReturnsCanceled ==
    [][\A h \in pending :
          (h.op = "cancel" /\ tasks[h.tid].control = "cancel" /\ Return(h))
          => ToStatus(h.tid).status = "canceled"]_vars

\* C8: an accepted start request, with no pause or cancel on the new task, returns
\* a record whose status is pending or downloading, whatever the worker has done.
C8_StartReturnsActive ==
    [][\A h \in pending :
          (h.op = "start" /\ tasks[h.tid].control = "" /\ Return(h))
          => ToStatus(h.tid).status \in {"pending", "downloading"}]_vars

\* C9: when a media worker takes its final step with no filename resolved, it
\* does not leave the task completed, and unless the task is paused or canceled by
\* then it leaves status error and message "Download finished but file not found".
C9_NoFileIsError ==
    [][\A w \in Running :
          (YtFinal(w) /\ tasks[w.tid].filename = <<>>)
          => /\ tasks'[w.tid].status # "completed"
             /\ tasks[w.tid].status \notin {"paused", "canceled"}
                => /\ tasks'[w.tid].status = "error"
                   /\ tasks'[w.tid].message = NotFoundMsg]_vars

\* a media worker has ended a run with no file: error, the fixed message, no name
C9_Witness ==
    \E t \in DOMAIN tasks :
        /\ tasks[t].status = "error" /\ tasks[t].message = NotFoundMsg
        /\ tasks[t].filename = <<>>
        /\ \A w \in Running : w.tid # t

\* C10: a task of a category other than video, audio or image, once every thread
\* launched for it (by start or by resume) has ended and with no pause or cancel
\* pending on it, has status error, message "Unsupported category" and no file.
C10_UnsupportedIsError ==
    \A t \in DOMAIN tasks :
        (/\ RunnerKind(tasks[t].category) = "unsupported"
         /\ tasks[t].control = ""
         /\ \A w \in Running : w.tid # t)
        => /\ tasks[t].status = "error"
           /\ tasks[t].message = UnsupportedMsg
           /\ t \notin files

C12_NoCompletedWithoutName ==
    [][\A h \in pending :
          Return(h) => ~(/\ ToStatus(h.tid).status = "completed"
                        /\ ToStatus(h.tid).filename = <<>>)]_vars

\* C13: for an id the registry no longer maps, no step is the work of a
\* get-status, pause, cancel or resume call on it: the control flag of its task
\* keeps its value, no handler sets out to return a record for it, no worker is
\* launched for it, and the id does not come back into the registry.
C13_UnknownIdNoChange ==
    [][\A t \in DOMAIN tasks :
          t \notin registry
          => /\ tasks'[t].control = tasks[t].control
             /\ \A h \in pending' \ pending : h.tid # t
             /\ WorkersOf(t)' <= WorkersOf(t)
             /\ t \notin registry']_vars

\* an id evicted from the registry whose worker still runs: calls on it are
\* answered with NotFound while its task object is still being written
C13_Witness ==
    \E t \in DOMAIN tasks :
        /\ t \notin registry
        /\ \E w \in Running : w.tid = t /\ w.pc \notin {"begin"}

\* C14: when a media worker, after a line, reads the control flag as pause (resp.
\* cancel), it sets status paused (resp. canceled), writes no other field of any
\* task, and returns: it is no longer among the running workers, so it writes
\* nothing from then on.
C14_CheckpointStops ==
    [][\A w \in Running :
          (YtCheck(w) /\ tasks[w.tid].control \in {"pause", "cancel"})
          => /\ tasks' = [tasks EXCEPT ![w.tid].status =
                             IF tasks[w.tid].control = "pause" THEN "paused" ELSE "canceled"]
             /\ workers' = workers (-) One(w)]_vars

\* a media task paused after a progress line: its worker has returned and left
\* neither a completion timestamp nor a message
C14_Witness ==
    \E t \in DOMAIN tasks :
        /\ RunnerKind(tasks[t].category) = "media"
        /\ tasks[t].control = "pause" /\ tasks[t].status = "paused"
        /\ tasks[t].progress > 0 /\ tasks[t].progress < Percent
        /\ tasks[t].downloaded_at = NoneVal /\ tasks[t].message = NoneVal
        /\ \A w \in Running : w.tid # t

\* C15: while the control flag of a task stays set to pause or cancel, a running
\* worker of the task handles at most one further unit of input: no worker has
\* applied two output lines, or written two chunks, with the flag set and
\* without a check that found it clear in between.
C15_AtMostOneMoreUnit ==
    \A w \in Running : w.late <= 1

\* an image worker has written one chunk after the flag was set and is back at
\* the head of its loop; a media worker has applied one line and is at its check
C15_Witness ==
    /\ \E w \in Running :
          w.kind = "image" /\ w.pc = "iter" /\ w.late = 1 /\ tasks[w.tid].control # ""
    \/ \E w \in Running :
          w.kind = "media" /\ w.pc = "check" /\ w.late = 1 /\ tasks[w.tid].control # ""

\* C16: a worker whose run raises after it has set status downloading leaves
\* its task with status error and the text of the failure as message, touches no
\* other task, and returns.
C16_FailureIsError ==
    [][\A w \in Running :
          (YtFail(w) \/ ImgFail(w))
          => /\ tasks'[w.tid].status = "error"
             /\ tasks'[w.tid].message = ExcMsg
             /\ \A t \in DOMAIN tasks \ {w.tid} : tasks'[t] = tasks[t]
             /\ workers' = workers (-) One(w)]_vars

\* a task whose only worker failed: error, the failure's text, no thread left
C16_Witness ==
    \E t \in DOMAIN tasks :
        /\ tasks[t].status = "error" /\ tasks[t].message = ExcMsg
        /\ \A w \in Running : w.tid # t

\* C17: the step in which evict-completed (resp. evict-canceled) removes tasks
\* removes from the registry exactly the tasks whose status is completed (resp.
\* canceled), changes no field of any task and deletes no file.
C17_EvictExactly ==
    [][ClearDelete
          => /\ registry \ registry' = {t \in registry : tasks[t].status = evicting.st}
             /\ tasks' = tasks
             /\ files' = files /\ mtime' = mtime]_vars

\* C18: in every reachable state at most MAX_TASKS tasks of the registry have
\* status pending or downloading.
C18_ActiveWithinCap ==
    ActiveCount <= MAX_TASKS

\* C19: no task stays in status downloading with no worker running for it, so
\* in every reachable state a task whose status is downloading has a worker
\* thread that was launched for it and has not returned.
C19_DownloadingHasWorker ==
    \A t \in DOMAIN tasks :
        tasks[t].status = "downloading" => \E w \in Running : w.tid = t

\* C20: a task whose status is completed or error keeps that status across
\* every step that is not a resume call on it.
C20_TerminalKept ==
    [][\A t \in DOMAIN tasks :
          (tasks[t].status \in {"completed", "error"} /\ ~ResumeTask(t))
          => tasks'[t].status = tasks[t].status]_vars

\* C21: at the step in which evict-completed or evict-canceled deletes a task
\* from the registry, no worker (run_ytdlp or run_image) launched for that task
\* is still running.
C21_EvictedHasNoWorker ==
    [][ClearDelete => \A t \in registry \ registry' : WorkersOf(t) = 0]_vars
====
